---- MODULE Spec2Model ----
(***************************************************************************)
(* tutor-legacyfrontends: the registration module plugin.py.               *)
(*                                                                         *)
(* The module body is a straight line of registration calls into the       *)
(* host's filters (hooks.Filters).  The model keeps the host registry      *)
(* (one priority-ordered callback list per filter), the position of the    *)
(* module body, the declared init-task list and the packaged template      *)
(* files it reads.                                                         *)
(***************************************************************************)
EXTENDS Naturals, Sequences, FiniteSets

VARIABLES
    reg,            \* filter name -> sequence of entries [item, priority, by]
    pc,             \* position in the module body of plugin.py
    i,              \* index of the MY_INIT_TASKS loop (1-based)
    MY_INIT_TASKS,  \* the declared list of (service, template_path)
    fs,             \* packaged template files: path -> content, or MISSING
    before,         \* the registry when the current load pass started
    after,          \* the registry when the last load pass ended
    pass,           \* number of load passes started
    nOthers,        \* registrations made by other registrants so far
    todo,           \* SpecPerm: registration operations not yet performed
    inOrder         \* SpecPerm: operations so far followed the source order

vars == <<reg, pc, i, MY_INIT_TASKS, fs, before, after, pass, nOthers, todo, inOrder>>

----------------------------------------------------------------------------
(* Bounds of the model *)

MaxOthers == 2
MaxTasks == 2
\* SpecTwice, whose runs are twice as long
MaxTwiceOthers == 1
\* SpecPerm, whose runs branch over every order of the eleven operations
MaxPermOthers == 1
MaxPermTasks == 1

----------------------------------------------------------------------------
(* The host: filters, priorities, add_item / add_items *)

Filters ==
    { "ENV_PATCHES", "CONFIG_DEFAULTS", "CONFIG_UNIQUE", "CONFIG_OVERRIDES",
      "CLI_DO_INIT_TASKS", "IMAGES_BUILD", "IMAGES_PULL", "IMAGES_PUSH",
      "ENV_TEMPLATE_ROOTS", "ENV_TEMPLATE_TARGETS",
      "CLI_DO_COMMANDS", "CLI_COMMANDS" }

\* The priority the host gives a registration made without one.
DEFAULT == 10

\* The context a registration is made in: this plugin, or any other registrant.
PLUGIN == "legacyfrontends"
ELSEWHERE == "other"

EmptyRegistry == [f \in Filters |-> <<>>]

\* The host walks the callback list while the priority found is <= the new one:
\* lower priorities come first, ties keep registration order.
RECURSIVE insert_callback(_, _, _)
insert_callback(s, priority, position) ==
    IF position <= Len(s) /\ s[position].priority <= priority
    THEN insert_callback(s, priority, position + 1)
    ELSE position

add_items(r, f, items, priority, by) ==
    LET s == r[f]
        position == insert_callback(s, priority, 1)
        new == [k \in 1..Len(items) |->
                   [item |-> items[k], priority |-> priority, by |-> by]]
    IN [r EXCEPT ![f] = SubSeq(s, 1, position - 1) \o new \o SubSeq(s, position, Len(s))]

add_item(r, f, item, priority, by) == add_items(r, f, <<item>>, priority, by)

----------------------------------------------------------------------------
(* plugin.py: the literals *)

PRE_ASSETS == "openedx-dockerfile-pre-assets"
POST_PYTHON_REQUIREMENTS == "openedx-dev-dockerfile-post-python-requirements"

BUILD_PRODUCTION_ASSETS == "BUILD_PRODUCTION_ASSETS"
BUILD_DEVELOPMENT_ASSETS == "BUILD_DEVELOPMENT_ASSETS"

PRODUCTION_PRIORITY_unset == DEFAULT
PRODUCTION_PRIORITY == 100

DEVELOPMENT_PRIORITY_unset == DEFAULT
DEVELOPMENT_PRIORITY_same == PRODUCTION_PRIORITY
DEVELOPMENT_PRIORITY == 1

\* Configuration keys are sequences of characters, so that a prefix is a prefix.
NAMESPACE == <<"L","E","G","A","C","Y","F","R","O","N","T","E","N","D","S","_">>

version == "__version__"

CONFIG_DEFAULTS_ITEMS_unprefixed == << << <<"V","E","R","S","I","O","N">>, version >> >>
CONFIG_DEFAULTS_ITEMS ==
    << << <<"L","E","G","A","C","Y","F","R","O","N","T","E","N","D","S","_",
            "V","E","R","S","I","O","N">>, version >> >>
CONFIG_UNIQUE_ITEMS == <<>>
CONFIG_OVERRIDES_ITEMS == <<>>

IMAGES_BUILD_ITEMS_example ==
    << <<"myimage", "plugins/legacyfrontends/build/myimage", "docker.io/myimage", <<>> >> >>
IMAGES_BUILD_ITEMS == <<>>
IMAGES_PULL_ITEMS == <<>>
IMAGES_PUSH_ITEMS == <<>>

TEMPLATE_ROOTS_ITEMS == << "tutorlegacyfrontends/templates" >>

TEMPLATE_TARGETS_ITEMS_one == << <<"legacyfrontends/build", "plugins">> >>
TEMPLATE_TARGETS_ITEMS ==
    << <<"legacyfrontends/build", "plugins">>, <<"legacyfrontends/apps", "plugins">> >>

----------------------------------------------------------------------------
(* plugin.py: the registration operations, each a function of the registry *)

RegisterProductionPatch(r) ==
    add_item(r, "ENV_PATCHES", <<PRE_ASSETS, BUILD_PRODUCTION_ASSETS>>,
             PRODUCTION_PRIORITY, PLUGIN)

RegisterDevelopmentPatch_overwrite(r) ==
    [r EXCEPT !["ENV_PATCHES"] =
        SelectSeq(r["ENV_PATCHES"], LAMBDA e : e.item[1] /= POST_PYTHON_REQUIREMENTS)
        \o << [item |-> <<POST_PYTHON_REQUIREMENTS, BUILD_DEVELOPMENT_ASSETS>>,
               priority |-> DEVELOPMENT_PRIORITY, by |-> PLUGIN] >>]
RegisterDevelopmentPatch(r) ==
    add_item(r, "ENV_PATCHES", <<POST_PYTHON_REQUIREMENTS, BUILD_DEVELOPMENT_ASSETS>>,
             DEVELOPMENT_PRIORITY, PLUGIN)

RegisterConfigDefaults(r) == add_items(r, "CONFIG_DEFAULTS", CONFIG_DEFAULTS_ITEMS, DEFAULT, PLUGIN)
RegisterConfigUnique(r) == add_items(r, "CONFIG_UNIQUE", CONFIG_UNIQUE_ITEMS, DEFAULT, PLUGIN)
RegisterConfigOverrides(r) == add_items(r, "CONFIG_OVERRIDES", CONFIG_OVERRIDES_ITEMS, DEFAULT, PLUGIN)

RegisterImagesBuild(r) == add_items(r, "IMAGES_BUILD", IMAGES_BUILD_ITEMS, DEFAULT, PLUGIN)
RegisterImagesPull(r) == add_items(r, "IMAGES_PULL", IMAGES_PULL_ITEMS, DEFAULT, PLUGIN)
RegisterImagesPush(r) == add_items(r, "IMAGES_PUSH", IMAGES_PUSH_ITEMS, DEFAULT, PLUGIN)

RegisterTemplateRoots(r) == add_items(r, "ENV_TEMPLATE_ROOTS", TEMPLATE_ROOTS_ITEMS, DEFAULT, PLUGIN)
RegisterTemplateTargets_once(r) ==
    IF Len(SelectSeq(r["ENV_TEMPLATE_TARGETS"], LAMBDA e : e.by = PLUGIN)) > 0 THEN r
    ELSE add_items(r, "ENV_TEMPLATE_TARGETS", TEMPLATE_TARGETS_ITEMS, DEFAULT, PLUGIN)
RegisterTemplateTargets(r) == add_items(r, "ENV_TEMPLATE_TARGETS", TEMPLATE_TARGETS_ITEMS, DEFAULT, PLUGIN)

\* open(full_path) of a file that is not packaged raises FileNotFoundError.
MISSING == "FileNotFoundError"

\* One iteration of the loop: the file's full text, registered with the service.
InitTaskOf_path(task, files) == <<task[1], task[2]>>
InitTaskOf(task, files) == <<task[1], files[task[2]]>>

RegisterInitTask(r, task, files) ==
    add_item(r, "CLI_DO_INIT_TASKS", InitTaskOf(task, files), DEFAULT, PLUGIN)

\* The whole loop from entry k on: the registry it leaves, and whether it
\* ran to the end (ok) or raised at a missing file.
RECURSIVE RegisterInitTasks(_, _, _, _)
RegisterInitTasks(r, tasks, files, k) ==
    IF k > Len(tasks) THEN [reg |-> r, ok |-> TRUE]
    ELSE IF files[tasks[k][2]] = MISSING THEN [reg |-> r, ok |-> FALSE]
    ELSE RegisterInitTasks(RegisterInitTask(r, tasks[k], files), tasks, files, k + 1)

\* The module body in one piece, in source order: what a completed or an
\* aborted load leaves in the registry.
LoadAll(r, tasks, files) ==
    LET r5 == RegisterConfigOverrides(RegisterConfigUnique(RegisterConfigDefaults(
                  RegisterDevelopmentPatch(RegisterProductionPatch(r)))))
        res == RegisterInitTasks(r5, tasks, files, 1)
    IN IF res.ok
       THEN [reg |-> RegisterTemplateTargets(RegisterTemplateRoots(RegisterImagesPush(
                         RegisterImagesPull(RegisterImagesBuild(res.reg))))),
             ok |-> TRUE]
       ELSE res

----------------------------------------------------------------------------
(* Inputs: the declared init-task list, the packaged files, other registrants *)

TaskEntries ==
    { <<"lms", "legacyfrontends/tasks/lms/init.sh">>,
      <<"cms", "legacyfrontends/tasks/cms/init.sh">> }

Paths == { e[2] : e \in TaskEntries }

Contents == { "echo lms", "echo cms" }

FileSystems == [Paths -> Contents \cup {MISSING}]

TaskLists == UNION { [1..n -> TaskEntries] : n \in 0..MaxTasks }

\* What another registrant may add: patches at the two insertion points (at the
\* default priority, or at the plugin's own priority there), a configuration
\* override, a template target, an init task, a CLI command.
OtherChoices ==
    << [filter |-> "ENV_PATCHES", item |-> <<PRE_ASSETS, "other">>, priority |-> DEFAULT],
       [filter |-> "ENV_PATCHES", item |-> <<PRE_ASSETS, "other">>, priority |-> 100],
       [filter |-> "ENV_PATCHES", item |-> <<POST_PYTHON_REQUIREMENTS, "other">>,
        priority |-> DEFAULT],
       [filter |-> "ENV_PATCHES", item |-> <<POST_PYTHON_REQUIREMENTS, "other">>,
        priority |-> 1],
       [filter |-> "CONFIG_OVERRIDES",
        item |-> << <<"P","L","A","T","F","O","R","M","_","N","A","M","E">>, "My platform" >>,
        priority |-> DEFAULT],
       [filter |-> "ENV_TEMPLATE_TARGETS", item |-> <<"other/build", "plugins">>,
        priority |-> DEFAULT],
       [filter |-> "CLI_DO_INIT_TASKS", item |-> <<"lms", "echo other">>,
        priority |-> DEFAULT],
       [filter |-> "CLI_COMMANDS", item |-> "othercommand", priority |-> DEFAULT] >>

\* The choices that are patches: the first four.
NumPatchChoices == Cardinality({ k \in 1..Len(OtherChoices) : OtherChoices[k].filter = "ENV_PATCHES" })

----------------------------------------------------------------------------
(* The state machine: the module body, statement by statement *)

Init ==
    /\ reg = EmptyRegistry
    /\ pc = "unloaded"
    /\ i = 1
    /\ MY_INIT_TASKS \in TaskLists
    /\ fs \in FileSystems
    /\ before = EmptyRegistry
    /\ after = EmptyRegistry
    /\ pass = 0
    /\ nOthers = 0
    /\ todo = {}
    /\ inOrder = TRUE

\* Another registrant adds an entry; never in the middle of this module's body,
\* which runs in one synchronous pass.
OtherRegisterUpTo(max) ==
    /\ pc \in {"unloaded", "done", "failed"}
    /\ nOthers < max
    /\ \E k \in 1..Len(OtherChoices) :
          LET c == OtherChoices[k]
          IN reg' = add_item(reg, c.filter, c.item, c.priority, ELSEWHERE)
    /\ nOthers' = nOthers + 1
    /\ UNCHANGED <<pc, i, MY_INIT_TASKS, fs, before, after, pass, todo, inOrder>>

OtherRegister == OtherRegisterUpTo(MaxOthers)

\* The host imports the module: the body starts.
Load ==
    /\ pc = "unloaded"
    /\ pc' = "patch_production"
    /\ before' = reg
    /\ pass' = 1
    /\ i' = 1
    /\ UNCHANGED <<reg, MY_INIT_TASKS, fs, after, nOthers, todo, inOrder>>

Step(at, r2, next) ==
    /\ pc = at
    /\ reg' = r2
    /\ pc' = next
    /\ UNCHANGED <<i, MY_INIT_TASKS, fs, before, after, pass, nOthers, todo, inOrder>>

PatchProduction == Step("patch_production", RegisterProductionPatch(reg), "patch_development")
PatchDevelopment == Step("patch_development", RegisterDevelopmentPatch(reg), "config_defaults")
ConfigDefaults == Step("config_defaults", RegisterConfigDefaults(reg), "config_unique")
ConfigUnique == Step("config_unique", RegisterConfigUnique(reg), "config_overrides")
ConfigOverrides == Step("config_overrides", RegisterConfigOverrides(reg), "init_tasks")

\* for service, template_path in MY_INIT_TASKS: one iteration
InitTaskRead ==
    /\ pc = "init_tasks"
    /\ i <= Len(MY_INIT_TASKS)
    /\ fs[MY_INIT_TASKS[i][2]] /= MISSING
    /\ reg' = RegisterInitTask(reg, MY_INIT_TASKS[i], fs)
    /\ i' = i + 1
    /\ UNCHANGED <<pc, MY_INIT_TASKS, fs, before, after, pass, nOthers, todo, inOrder>>

InitTaskFileNotFound_skip ==
    /\ pc = "init_tasks"
    /\ i <= Len(MY_INIT_TASKS)
    /\ fs[MY_INIT_TASKS[i][2]] = MISSING
    /\ i' = i + 1
    /\ UNCHANGED <<reg, pc, MY_INIT_TASKS, fs, before, after, pass, nOthers, todo, inOrder>>

\* open() raises: the exception leaves the module body.
InitTaskFileNotFound ==
    /\ pc = "init_tasks"
    /\ i <= Len(MY_INIT_TASKS)
    /\ fs[MY_INIT_TASKS[i][2]] = MISSING
    /\ pc' = "failed"
    /\ after' = reg
    /\ UNCHANGED <<reg, i, MY_INIT_TASKS, fs, before, pass, nOthers, todo, inOrder>>

InitTasksEnd ==
    /\ pc = "init_tasks"
    /\ i > Len(MY_INIT_TASKS)
    /\ pc' = "images_build"
    /\ UNCHANGED <<reg, i, MY_INIT_TASKS, fs, before, after, pass, nOthers, todo, inOrder>>

ImagesBuild == Step("images_build", RegisterImagesBuild(reg), "images_pull")
ImagesPull == Step("images_pull", RegisterImagesPull(reg), "images_push")
ImagesPush == Step("images_push", RegisterImagesPush(reg), "template_roots")
TemplateRoots == Step("template_roots", RegisterTemplateRoots(reg), "template_targets")

\* The last statement of the module body: the load pass is over.
TemplateTargets ==
    /\ pc = "template_targets"
    /\ reg' = RegisterTemplateTargets(reg)
    /\ pc' = "done"
    /\ after' = reg'
    /\ UNCHANGED <<i, MY_INIT_TASKS, fs, before, pass, nOthers, todo, inOrder>>

Body ==
    \/ PatchProduction
    \/ PatchDevelopment
    \/ ConfigDefaults
    \/ ConfigUnique
    \/ ConfigOverrides
    \/ InitTaskRead
    \/ InitTaskFileNotFound
    \/ InitTasksEnd
    \/ ImagesBuild
    \/ ImagesPull
    \/ ImagesPush
    \/ TemplateRoots
    \/ TemplateTargets

Next == OtherRegister \/ Load \/ Body

Spec == Init /\ [][Next]_vars

----------------------------------------------------------------------------
(* The module body executed a second time against the same registry *)

LoadAgain ==
    /\ pc = "done"
    /\ pass = 1
    /\ pc' = "patch_production"
    /\ before' = reg
    /\ pass' = 2
    /\ i' = 1
    /\ UNCHANGED <<reg, MY_INIT_TASKS, fs, after, nOthers, todo, inOrder>>

OtherRegisterTwice == OtherRegisterUpTo(MaxTwiceOthers)

NextTwice == OtherRegisterTwice \/ Load \/ Body \/ LoadAgain

SpecTwice == Init /\ [][NextTwice]_vars

----------------------------------------------------------------------------
(* The registration operations performed in any order *)

SourceOrder ==
    << "patch_production", "patch_development", "config_defaults", "config_unique",
       "config_overrides", "init_tasks", "images_build", "images_pull", "images_push",
       "template_roots", "template_targets" >>

Operations == { SourceOrder[k] : k \in 1..Len(SourceOrder) }

PlaceOf(op) == CHOOSE k \in 1..Len(SourceOrder) : SourceOrder[k] = op

\* The registry an operation leaves, and whether it ran to its end.
Apply(op, r, tasks, files) ==
    CASE op = "patch_production" -> [reg |-> RegisterProductionPatch(r), ok |-> TRUE]
      [] op = "patch_development" -> [reg |-> RegisterDevelopmentPatch(r), ok |-> TRUE]
      [] op = "config_defaults" -> [reg |-> RegisterConfigDefaults(r), ok |-> TRUE]
      [] op = "config_unique" -> [reg |-> RegisterConfigUnique(r), ok |-> TRUE]
      [] op = "config_overrides" -> [reg |-> RegisterConfigOverrides(r), ok |-> TRUE]
      [] op = "init_tasks" -> RegisterInitTasks(r, tasks, files, 1)
      [] op = "images_build" -> [reg |-> RegisterImagesBuild(r), ok |-> TRUE]
      [] op = "images_pull" -> [reg |-> RegisterImagesPull(r), ok |-> TRUE]
      [] op = "images_push" -> [reg |-> RegisterImagesPush(r), ok |-> TRUE]
      [] op = "template_roots" -> [reg |-> RegisterTemplateRoots(r), ok |-> TRUE]
      [] op = "template_targets" -> [reg |-> RegisterTemplateTargets(r), ok |-> TRUE]

PermFileSystems == [Paths -> {"echo lms", MISSING}]

PermTaskLists == UNION { [1..n -> TaskEntries] : n \in 0..MaxPermTasks }

InitPerm ==
    /\ reg = EmptyRegistry
    /\ pc = "unloaded"
    /\ i = 1
    /\ MY_INIT_TASKS \in PermTaskLists
    /\ fs \in PermFileSystems
    /\ before = EmptyRegistry
    /\ after = EmptyRegistry
    /\ pass = 0
    /\ nOthers = 0
    /\ todo = {}
    /\ inOrder = TRUE

\* The registry the load starts from: patches of other registrants.
OtherRegisterFirst ==
    /\ pc = "unloaded"
    /\ nOthers < MaxPermOthers
    /\ \E k \in 1..NumPatchChoices :
          LET c == OtherChoices[k]
          IN reg' = add_item(reg, c.filter, c.item, c.priority, ELSEWHERE)
    /\ nOthers' = nOthers + 1
    /\ UNCHANGED <<pc, i, MY_INIT_TASKS, fs, before, after, pass, todo, inOrder>>

PermLoad ==
    /\ pc = "unloaded"
    /\ pc' = "loading"
    /\ todo' = Operations
    /\ before' = reg
    /\ pass' = 1
    /\ UNCHANGED <<reg, i, MY_INIT_TASKS, fs, after, nOthers, inOrder>>

PermStep ==
    /\ pc = "loading"
    /\ \E op \in todo :
          LET res == Apply(op, reg, MY_INIT_TASKS, fs)
          IN /\ reg' = res.reg
             /\ todo' = todo \ {op}
             /\ inOrder' = (inOrder /\ \A o \in todo : PlaceOf(op) <= PlaceOf(o))
             /\ pc' = IF ~res.ok THEN "failed"
                      ELSE IF todo' = {} THEN "done" ELSE "loading"
             /\ after' = IF pc' = "loading" THEN after ELSE reg'
    /\ UNCHANGED <<i, MY_INIT_TASKS, fs, before, pass, nOthers>>

NextPerm == OtherRegisterFirst \/ PermLoad \/ PermStep

SpecPerm == InitPerm /\ [][NextPerm]_vars

----------------------------------------------------------------------------
(* What the host makes of the registry, and helpers to state the properties *)

\* The entries the host concatenates at one patch insertion point, in order.
PatchesAt(r, name) == SelectSeq(r["ENV_PATCHES"], LAMBDA e : e.item[1] = name)

Owned(s, by) == SelectSeq(s, LAMBDA e : e.by = by)

Items(s) == [k \in 1..Len(s) |-> s[k].item]

PluginItems(r, f) == Items(Owned(r[f], PLUGIN))

OtherDefaults(s) == SelectSeq(s, LAMBDA e : e.by = ELSEWHERE /\ e.priority = DEFAULT)

HasPrefix(key, prefix) ==
    /\ Len(key) >= Len(prefix)
    /\ SubSeq(key, 1, Len(prefix)) = prefix

RECURSIVE IsSubseq(_, _)
IsSubseq(s, t) ==
    IF s = <<>> THEN TRUE
    ELSE IF t = <<>> THEN FALSE
    ELSE IF Head(s) = Head(t) THEN IsSubseq(Tail(s), Tail(t))
    ELSE IsSubseq(s, Tail(t))

Exists(task) == fs[task[2]] /= MISSING

\* The entries of the declared list before the first one whose file is missing.
Readable ==
    LET missing == { k \in 1..Len(MY_INIT_TASKS) : ~Exists(MY_INIT_TASKS[k]) }
        n == IF missing = {} THEN Len(MY_INIT_TASKS)
             ELSE (CHOOSE k \in missing : \A m \in missing : k <= m) - 1
    IN SubSeq(MY_INIT_TASKS, 1, n)

TextOf(tasks) == [k \in 1..Len(tasks) |-> <<tasks[k][1], fs[tasks[k][2]]>>]

Loaded == pc = "done"

Ended == pc \in {"done", "failed"}

ConfigTiers == {"CONFIG_DEFAULTS", "CONFIG_UNIQUE", "CONFIG_OVERRIDES"}

----------------------------------------------------------------------------
(* The properties *)

\* C1: at insertion point "openedx-dockerfile-pre-assets" every patch another
\* registrant added with the default priority, before or after the plugin,
\* comes strictly before the plugin's production-assets patch, which a loaded
\* plugin has registered exactly once.
C1_ProductionAssetsLast ==
    LET s == PatchesAt(reg, PRE_ASSETS)
    IN /\ \A a, b \in 1..Len(s) :
             (s[a].by = ELSEWHERE /\ s[a].priority = DEFAULT /\ s[b].by = PLUGIN) => a < b
       /\ Loaded => Items(Owned(s, PLUGIN)) = << <<PRE_ASSETS, BUILD_PRODUCTION_ASSETS>> >>

C1_Witness ==
    /\ Loaded
    /\ Len(OtherDefaults(PatchesAt(before, PRE_ASSETS))) >= 1
    /\ Len(OtherDefaults(PatchesAt(reg, PRE_ASSETS)))
         > Len(OtherDefaults(PatchesAt(before, PRE_ASSETS)))

\* C2: at insertion point "openedx-dev-dockerfile-post-python-requirements"
\* the plugin's development-assets patch, registered exactly once by a loaded
\* plugin, comes strictly before every patch another registrant added with the
\* default priority, before or after the plugin.
C2_DevelopmentAssetsFirst ==
    LET s == PatchesAt(reg, POST_PYTHON_REQUIREMENTS)
    IN /\ \A a, b \in 1..Len(s) :
             (s[a].by = PLUGIN /\ s[b].by = ELSEWHERE /\ s[b].priority = DEFAULT) => a < b
       /\ Loaded =>
             Items(Owned(s, PLUGIN)) = << <<POST_PYTHON_REQUIREMENTS, BUILD_DEVELOPMENT_ASSETS>> >>

C2_Witness ==
    /\ Loaded
    /\ Len(OtherDefaults(PatchesAt(before, POST_PYTHON_REQUIREMENTS))) >= 1
    /\ Len(OtherDefaults(PatchesAt(reg, POST_PYTHON_REQUIREMENTS)))
         > Len(OtherDefaults(PatchesAt(before, POST_PYTHON_REQUIREMENTS)))

\* What one pass and two passes over an empty registry leave.
OnePass == LoadAll(EmptyRegistry, MY_INIT_TASKS, fs).reg
TwoPasses == LoadAll(OnePass, MY_INIT_TASKS, fs).reg

C4_EveryExistingFileRegistered ==
    Ended =>
        PluginItems(reg, "CLI_DO_INIT_TASKS") = TextOf(SelectSeq(MY_INIT_TASKS, Exists))

\* C4 as amended: once the load has ended, the init tasks the plugin registered
\* are those of every entry of the declared list that no entry with a missing
\* file precedes (and whose own file exists): one task per entry, with the
\* service of the entry and the full content of its file, in the order of the
\* list.
C4_ReadableFilesRegistered ==
    Ended => PluginItems(reg, "CLI_DO_INIT_TASKS") = TextOf(Readable)

C4_Witness ==
    /\ Loaded
    /\ Len(MY_INIT_TASKS) = 2
    /\ MY_INIT_TASKS[1] /= MY_INIT_TASKS[2]
    /\ fs[MY_INIT_TASKS[1][2]] /= fs[MY_INIT_TASKS[2][2]]

\* C5: a load that meets a missing template file fails at that entry and never
\* completes; the failed load has registered the init tasks of the earlier
\* entries only, keeps both patches and the three configuration tiers, keeps
\* everything the registry held before, and has registered nothing to the
\* image and template registries.
C5_FileNotFoundAbortsLoad ==
    /\ Loaded => \A k \in 1..Len(MY_INIT_TASKS) : Exists(MY_INIT_TASKS[k])
    /\ pc = "failed" =>
          /\ i <= Len(MY_INIT_TASKS)
          /\ ~Exists(MY_INIT_TASKS[i])
          /\ \A k \in 1..(i - 1) : Exists(MY_INIT_TASKS[k])
          /\ Len(PluginItems(reg, "CLI_DO_INIT_TASKS")) = i - 1
          /\ PluginItems(reg, "ENV_PATCHES") =
                << <<POST_PYTHON_REQUIREMENTS, BUILD_DEVELOPMENT_ASSETS>>,
                   <<PRE_ASSETS, BUILD_PRODUCTION_ASSETS>> >>
          /\ Len(PluginItems(reg, "CONFIG_DEFAULTS")) = 1
          /\ PluginItems(reg, "CONFIG_UNIQUE") = <<>>
          /\ PluginItems(reg, "CONFIG_OVERRIDES") = <<>>
          /\ \A f \in Filters : IsSubseq(before[f], after[f])
          /\ \A f \in {"IMAGES_BUILD", "IMAGES_PULL", "IMAGES_PUSH",
                       "ENV_TEMPLATE_ROOTS", "ENV_TEMPLATE_TARGETS"} :
                PluginItems(reg, f) = <<>>

C5_Witness ==
    /\ pc = "failed"
    /\ i = 2
    /\ before["ENV_PATCHES"] /= <<>>

\* C6: every configuration key the plugin registered, in any of the three
\* tiers, starts with "LEGACYFRONTENDS_"; a loaded plugin has registered
\* exactly one default, LEGACYFRONTENDS_VERSION with the version string, and
\* nothing to the unique and overrides tiers.
C6_ConfigKeysNamespaced ==
    /\ \A f \in ConfigTiers :
          \A k \in 1..Len(reg[f]) :
              reg[f][k].by = PLUGIN => HasPrefix(reg[f][k].item[1], NAMESPACE)
    /\ Loaded =>
          /\ PluginItems(reg, "CONFIG_DEFAULTS") =
                << << NAMESPACE \o <<"V","E","R","S","I","O","N">>, version >> >>
          /\ PluginItems(reg, "CONFIG_UNIQUE") = <<>>
          /\ PluginItems(reg, "CONFIG_OVERRIDES") = <<>>

C6_Witness ==
    /\ Loaded
    /\ Len(reg["CONFIG_DEFAULTS"]) = 1
    /\ Len(Owned(reg["CONFIG_OVERRIDES"], ELSEWHERE)) >= 1

\* C7: a loaded plugin has contributed exactly the two template targets
\* ("legacyfrontends/build", "plugins") and ("legacyfrontends/apps", "plugins"),
\* in that order, and exactly one template root; loaded against a fresh
\* registry, these are all the two registries hold.
C7_TemplateTargetsAndRoot ==
    Loaded =>
        /\ PluginItems(reg, "ENV_TEMPLATE_TARGETS") =
              << <<"legacyfrontends/build", "plugins">>, <<"legacyfrontends/apps", "plugins">> >>
        /\ Len(PluginItems(reg, "ENV_TEMPLATE_ROOTS")) = 1
        /\ before = EmptyRegistry =>
              /\ Items(after["ENV_TEMPLATE_TARGETS"]) =
                    << <<"legacyfrontends/build", "plugins">>,
                       <<"legacyfrontends/apps", "plugins">> >>
              /\ Len(after["ENV_TEMPLATE_ROOTS"]) = 1

C7_Witness ==
    /\ Loaded
    /\ before = EmptyRegistry
    /\ Len(reg["ENV_TEMPLATE_TARGETS"]) = 3

\* C8: with an empty declared init-task list (the image lists are empty in the
\* source), the image build, image pull, image push and init-task registries
\* hold after the load what they held before it.
C8_EmptyListsRegisterNothing ==
    (Loaded /\ MY_INIT_TASKS = <<>>) =>
        \A f \in {"IMAGES_BUILD", "IMAGES_PULL", "IMAGES_PUSH", "CLI_DO_INIT_TASKS"} :
            after[f] = before[f]

C8_Witness ==
    /\ Loaded
    /\ MY_INIT_TASKS = <<>>
    /\ before["CLI_DO_INIT_TASKS"] /= <<>>

\* C9: from the start of the load on, every entry the registry held before the
\* load is still there, unchanged and in the same relative order, in every
\* extension point, and the CLI job and CLI command registries are exactly what
\* they were.
C9_LoadOnlyAppends ==
    LET now == IF Ended THEN after ELSE reg
    IN pc /= "unloaded" =>
          /\ \A f \in Filters : IsSubseq(before[f], now[f])
          /\ now["CLI_DO_COMMANDS"] = before["CLI_DO_COMMANDS"]
          /\ now["CLI_COMMANDS"] = before["CLI_COMMANDS"]

C9_Witness ==
    /\ Loaded
    /\ PatchesAt(before, POST_PYTHON_REQUIREMENTS) /= <<>>
    /\ before["CLI_COMMANDS"] /= <<>>

====
